---- MODULE Spec2Model ----
(***************************************************************************)
(* Probabilistic suffix trees of src/pst.py: Node, PST and PST_model.      *)
(*                                                                         *)
(* A tree is an arena of nodes (a sequence of node records, node 1 the     *)
(* root); a node's children dict is the sequence of its entries in         *)
(* insertion order, each entry naming the child node and holding 'count'   *)
(* and, once evaluated, 'p'.  A probability is the exact ratio <<n, d>> in  *)
(* lowest terms of the quotient the code computes; the code holds the      *)
(* double nearest to it, so sums and products here are those of the code   *)
(* up to IEEE rounding.  Every value a call can produce is a tuple.        *)
(***************************************************************************)
EXTENDS Integers, Sequences, FiniteSets, TLC

VARIABLES
    depth,   \* PST_model._depth
    trees,   \* PST_model.trees: the list of PST objects
    taken,   \* history: per tree, the bag of chains taken into it
    phase,   \* history: per tree, "never" | "fresh" | "stale" (evaluated since the last chain?)
    fits,    \* number of fit calls made
    out      \* the last call and what it returned or raised

vars == <<depth, trees, taken, phase, fits, out>>

\* ------------------------------------------------------------------ bounds

MaxFits == 3
MaxChains == 3

Depths == 0..3
Labels == {"A", "B", "C", "D"}

\* ------------------------------------------------------------------ values

NoP == <<>>                  \* an entry without the key 'p'
NoneVal == <<"None">>        \* Python's None
NaN == <<"NaN">>             \* np.NaN
KeyError == <<"KeyError">>   \* raised by info['p'] on an entry without 'p'
IndexError == <<"IndexError">> \* raised by subchain[0] on an empty window
NotEvaluated == "NotEvaluated"

IsNum(r) == Len(r) = 2

\* the exception a value stands for, "" for a value returned
ExcOf(v) ==
    IF v = KeyError THEN "KeyError" ELSE IF v = IndexError THEN "IndexError" ELSE ""

Abs(x) == IF x < 0 THEN -x ELSE x

RECURSIVE GCD(_, _)
GCD(a, b) == IF b = 0 THEN a ELSE GCD(b, a % b)

\* the ratio n/d, d > 0, in lowest terms
Ratio(n, d) == LET g == GCD(Abs(n), d) IN <<n \div g, d \div g>>

Zero == <<0, 1>>
One == <<1, 1>>

RAdd(a, b) == Ratio(a[1] * b[2] + b[1] * a[2], a[2] * b[2])
RSub(a, b) == Ratio(a[1] * b[2] - b[1] * a[2], a[2] * b[2])
RMul(a, b) == Ratio(a[1] * b[1], a[2] * b[2])
RSq(a) == RMul(a, a)

Min(S) == CHOOSE x \in S : \A y \in S : x <= y

RECURSIVE SumCounts(_)
SumCounts(children) ==
    IF children = <<>> THEN 0
    ELSE Head(children).count + SumCounts(Tail(children))

\* ------------------------------------------------------------------ Node

\* Node.__init__: a fresh node under nodes[parent] (parent 0: no parent)
Node(nodes, parent, name) ==
    [ parent |-> parent,
      name |-> name,
      level |-> IF parent # 0 THEN nodes[parent].level + 1 ELSE 0,
      children |-> <<>>,
      has_children |-> FALSE ]

\* Node.get_child_by_name: the first child with that name, 0 for None
GetChildByName(nodes, n, name) ==
    LET ch == nodes[n].children
        ks == {k \in 1..Len(ch) : nodes[ch[k].node].name = name}
    IN  IF ks = {} THEN 0 ELSE ch[Min(ks)].node

\* the position in nodes[n].children of the entry keyed by node c
EntryOf(nodes, n, c) ==
    CHOOSE k \in 1..Len(nodes[n].children) : nodes[n].children[k].node = c

\* a merge that installs the candidate even when a child of that name exists
AddChildNoMerge(nodes, n, name) ==
    LET new == Len(nodes) + 1
        grown == Append(nodes, Node(nodes, n, name))
    IN  [ nodes |-> [grown EXCEPT ![n].has_children = TRUE,
                                  ![n].children = Append(@, [node |-> new, count |-> 1, p |-> NoP])],
          node |-> new ]

\* Node.add_child with the candidate Node(parent = nodes[n], name): the arena
\* after the call and the node returned
AddChild(nodes, n, name) ==
    LET child == GetChildByName(nodes, n, name)
    IN  IF child # 0
        THEN [ nodes |-> [nodes EXCEPT ![n].has_children = TRUE,
                                       ![n].children[EntryOf(nodes, n, child)].count = @ + 1],
               node |-> child ]
        ELSE LET new == Len(nodes) + 1
                 grown == Append(nodes, Node(nodes, n, name))
             IN  [ nodes |-> [grown EXCEPT ![n].has_children = TRUE,
                                           ![n].children = Append(@, [node |-> new, count |-> 1, p |-> NoP])],
                   node |-> new ]

\* Node.get_node_distance with every unmatched child counted as no difference
NodeDistanceUnmatchedFree(nodes1, n1, nodes2, n2) ==
    LET ch == nodes1[n1].children
        Term(k) ==
            IF n2 = 0 THEN Zero
            ELSE LET c2 == GetChildByName(nodes2, n2, nodes1[ch[k].node].name)
                 IN  IF c2 = 0 THEN Zero
                     ELSE LET p2 == nodes2[n2].children[EntryOf(nodes2, n2, c2)].p
                          IN  IF IsNum(ch[k].p) /\ IsNum(p2) THEN RSq(RSub(ch[k].p, p2)) ELSE KeyError
        Sum[k \in 0..Len(ch)] ==
            IF k = 0 THEN Zero
            ELSE IF ~IsNum(Sum[k - 1]) \/ ~IsNum(Term(k)) THEN KeyError
            ELSE RAdd(Sum[k - 1], Term(k))
    IN  IF ~nodes1[n1].has_children THEN Zero ELSE Sum[Len(ch)]

\* Node.get_node_distance with a matched child compared by the sum of the two probabilities
NodeDistanceSum(nodes1, n1, nodes2, n2) ==
    LET ch == nodes1[n1].children
        Term(k) ==
            IF n2 = 0 THEN (IF IsNum(ch[k].p) THEN RSq(ch[k].p) ELSE KeyError)
            ELSE LET c2 == GetChildByName(nodes2, n2, nodes1[ch[k].node].name)
                 IN  IF c2 = 0 THEN (IF IsNum(ch[k].p) THEN RSq(ch[k].p) ELSE KeyError)
                     ELSE LET p2 == nodes2[n2].children[EntryOf(nodes2, n2, c2)].p
                          IN  IF IsNum(ch[k].p) /\ IsNum(p2) THEN RSq(RAdd(ch[k].p, p2)) ELSE KeyError
        Sum[k \in 0..Len(ch)] ==
            IF k = 0 THEN Zero
            ELSE IF ~IsNum(Sum[k - 1]) \/ ~IsNum(Term(k)) THEN KeyError
            ELSE RAdd(Sum[k - 1], Term(k))
    IN  IF ~nodes1[n1].has_children THEN Zero ELSE Sum[Len(ch)]

\* Node.get_node_distance: nodes1[n1] against nodes2[n2] (n2 = 0: None); the
\* sum over n1's children of p1^2 (other side None or without that name) or
\* (p1 - p2)^2 (matched by name); KeyError when a 'p' it reads is absent
NodeDistance(nodes1, n1, nodes2, n2) ==
    LET ch == nodes1[n1].children
        Term(k) ==
            IF n2 = 0 THEN (IF IsNum(ch[k].p) THEN RSq(ch[k].p) ELSE KeyError)
            ELSE LET c2 == GetChildByName(nodes2, n2, nodes1[ch[k].node].name)
                 IN  IF c2 = 0 THEN (IF IsNum(ch[k].p) THEN RSq(ch[k].p) ELSE KeyError)
                     ELSE LET p2 == nodes2[n2].children[EntryOf(nodes2, n2, c2)].p
                          IN  IF IsNum(ch[k].p) /\ IsNum(p2) THEN RSq(RSub(ch[k].p, p2)) ELSE KeyError
        Sum[k \in 0..Len(ch)] ==
            IF k = 0 THEN Zero
            ELSE IF ~IsNum(Sum[k - 1]) \/ ~IsNum(Term(k)) THEN KeyError
            ELSE RAdd(Sum[k - 1], Term(k))
    IN  IF ~nodes1[n1].has_children THEN Zero ELSE Sum[Len(ch)]

\* ------------------------------------------------------------------ PST

RECURSIVE InitWalk(_, _, _)
InitWalk(nodes, node, rest) ==
    IF rest = <<>> THEN nodes
    ELSE LET r == AddChild(nodes, node, Head(rest))
         IN  InitWalk(r.nodes, Len(nodes) + 1, Tail(rest))

\* PST.__init__: the root named init_chain[0] and one path for init_chain[1:]
PSTInit(init_chain) ==
    [ name |-> init_chain[1],
      depth |-> Len(init_chain),
      power |-> 0,
      nodes |-> InitWalk(<<Node(<<>>, 0, init_chain[1])>>, 1, Tail(init_chain)) ]

RECURSIVE SubchainWalk(_, _, _)
SubchainWalk(nodes, node, rest) ==
    IF rest = <<>> THEN nodes
    ELSE LET r == AddChild(nodes, node, Head(rest))
         IN  SubchainWalk(r.nodes, r.node, Tail(rest))

\* PST.add_subchain that forgets to count the chain
AddSubchainNoPower(pst, subchain) ==
    [pst EXCEPT !.nodes = SubchainWalk(pst.nodes, 1, Tail(subchain))]

\* PST.add_subchain: subchain[1:] merged in from the root, power + 1
AddSubchain(pst, subchain) ==
    [pst EXCEPT !.nodes = SubchainWalk(pst.nodes, 1,
                              IF subchain = <<>> THEN <<>> ELSE Tail(subchain)),
                !.power = @ + 1]

\* an evaluation that derives 'p' only for the entries that have none yet
EvaluateOnlyNew(nodes) ==
    [n \in 1..Len(nodes) |->
        [nodes[n] EXCEPT !.children =
            [k \in 1..Len(nodes[n].children) |->
                [nodes[n].children[k] EXCEPT !.p =
                    IF @ = NoP
                    THEN Ratio(nodes[n].children[k].count, SumCounts(nodes[n].children))
                    ELSE @]]]]

\* an evaluation that divides by the number of children
EvaluateUniform(nodes) ==
    [n \in 1..Len(nodes) |->
        [nodes[n] EXCEPT !.children =
            [k \in 1..Len(nodes[n].children) |->
                [nodes[n].children[k] EXCEPT !.p =
                    Ratio(nodes[n].children[k].count, Len(nodes[n].children))]]]]

\* PST.evaluate_probability / evaluate_node_probability: the recursion from
\* the root visits every node of the arena; at each node with children,
\* p = count / (sum of the counts of that node's children)
EvaluateNodeProbability(nodes) ==
    [n \in 1..Len(nodes) |->
        [nodes[n] EXCEPT !.children =
            [k \in 1..Len(nodes[n].children) |->
                [nodes[n].children[k] EXCEPT !.p =
                    Ratio(nodes[n].children[k].count, SumCounts(nodes[n].children))]]]]

EvaluateProbability(pst) == [pst EXCEPT !.nodes = EvaluateNodeProbability(pst.nodes)]

\* PST.get_node_distance: the running distance after node1 (and below it)
\* against node2 (0: None)
RECURSIVE PSTNodeDistance(_, _, _, _, _)
RECURSIVE PSTChildrenDistance(_, _, _, _, _, _)
PSTNodeDistance(nodes1, n1, nodes2, n2, distance) ==
    IF ~nodes1[n1].has_children THEN distance
    ELSE LET d == NodeDistance(nodes1, n1, nodes2, n2)
         IN  IF ~IsNum(distance) \/ ~IsNum(d) THEN KeyError
             ELSE PSTChildrenDistance(nodes1, n1, nodes2, n2, 1, RAdd(distance, d))

\* the loop over node1.children from its k-th entry on
PSTChildrenDistance(nodes1, n1, nodes2, n2, k, distance) ==
    IF k > Len(nodes1[n1].children) \/ ~IsNum(distance) THEN distance
    ELSE LET child1 == nodes1[n1].children[k].node
             child2 == IF n2 = 0 THEN 0
                       ELSE GetChildByName(nodes2, n2, nodes1[child1].name)
         IN  PSTChildrenDistance(nodes1, n1, nodes2, n2, k + 1,
                 PSTNodeDistance(nodes1, child1, nodes2, child2, distance))

\* PST.get_distance
GetDistance(pst1, pst2) == PSTNodeDistance(pst1.nodes, 1, pst2.nodes, 1, Zero)

\* ------------------------------------------------------------------ PST_model

\* PST_model.get_PST_by_name: the first tree with that name, 0 for None
GetPSTByName(ts, name) ==
    LET is == {i \in 1..Len(ts) : ts[i].name = name}
    IN  IF is = {} THEN 0 ELSE Min(is)

\* a splitting that also yields the window ending at the last element
GetSubchainsWithLast(chain, d) ==
    [i \in 1..(IF Len(chain) - d + 1 > 0 THEN Len(chain) - d + 1 ELSE 0) |->
        SubSeq(chain, i, i + d - 1)]

\* a splitting that starts one element later and ends at the last element
GetSubchainsShifted(chain, d) ==
    [i \in 1..(IF Len(chain) - d > 0 THEN Len(chain) - d ELSE 0) |->
        SubSeq(chain, i + 1, i + d)]

\* PST_model._get_subchains: chain[i:i+depth] for i in range(len(chain) - depth)
GetSubchains(chain, d) ==
    [i \in 1..(IF Len(chain) - d > 0 THEN Len(chain) - d ELSE 0) |->
        SubSeq(chain, i, i + d - 1)]

\* the loop of fit over the windows: absorb into the tree named by the
\* window's first element, or append a new tree built from the window
RECURSIVE FitWindows(_, _)
FitWindows(ts, subchains) ==
    IF subchains = <<>> THEN ts
    ELSE LET subchain == Head(subchains)
             t == GetPSTByName(ts, subchain[1])
         IN  FitWindows(
                 IF t # 0 THEN [ts EXCEPT ![t] = AddSubchain(ts[t], subchain)]
                 ELSE Append(ts, PSTInit(subchain)),
                 Tail(subchains))

\* PST_model.fit raises IndexError at subchain[0] when a window is empty
\* (depth 0), before any tree is touched
FitRaises(d, chain) ==
    \E i \in 1..Len(GetSubchains(chain, d)) : GetSubchains(chain, d)[i] = <<>>

\* PST_model.fit: the trees after fit(chain)
FitTrees(ts, d, chain) ==
    IF FitRaises(d, chain) THEN ts
    ELSE LET absorbed == FitWindows(ts, GetSubchains(chain, d))
         IN  [i \in 1..Len(absorbed) |-> EvaluateProbability(absorbed[i])]

\* the walk of get_event_prob from node along rest with the running product
RECURSIVE ProbWalk(_, _, _, _)
ProbWalk(nodes, node, rest, prob) ==
    IF rest = <<>> THEN prob
    ELSE LET child == GetChildByName(nodes, node, Head(rest))
         IN  IF child = 0 THEN Zero
             ELSE LET p == nodes[node].children[EntryOf(nodes, node, child)].p
                  IN  IF ~IsNum(p) THEN KeyError
                      ELSE ProbWalk(nodes, child, Tail(rest), RMul(prob, p))

\* a query that looks the tree up before it checks the length
GetEventProbLookupFirst(ts, d, subchain) ==
    IF subchain = <<>> THEN IndexError
    ELSE LET t == GetPSTByName(ts, subchain[1])
         IN  IF t = 0 THEN Zero
             ELSE IF Len(subchain) # d THEN NoneVal
             ELSE ProbWalk(ts[t].nodes, 1, Tail(subchain), One)

\* PST_model.get_event_prob: None on a length mismatch, 0 without a tree or
\* off the tree, else the product of the 'p' along the path
GetEventProb(ts, d, subchain) ==
    IF Len(subchain) # d THEN NoneVal
    ELSE IF subchain = <<>> THEN IndexError
    ELSE LET t == GetPSTByName(ts, subchain[1])
         IN  IF t = 0 THEN Zero
             ELSE ProbWalk(ts[t].nodes, 1, Tail(subchain), One)

\* PST_model.get_chain_prob: depth NaNs, then one entry per window; what a
\* get_event_prob raises ends the call
GetChainProb(ts, d, chain) ==
    LET probs == [i \in 1..Len(GetSubchains(chain, d)) |->
                     GetEventProb(ts, d, GetSubchains(chain, d)[i])]
        failed == {i \in 1..Len(probs) : ExcOf(probs[i]) # ""}
    IN  IF failed # {} THEN [raised |-> ExcOf(probs[Min(failed)]), value |-> <<>>]
        ELSE [raised |-> "", value |-> [k \in 1..d |-> NaN] \o probs]

\* ------------------------------------------------------------------ history

BagAdd(bag, w) ==
    IF w \in DOMAIN bag THEN [bag EXCEPT ![w] = @ + 1] ELSE bag @@ (w :> 1)

\* the history after the windows: each window goes to the entry of its first
\* element, a new entry when there is none
RECURSIVE TakeWindows(_, _)
TakeWindows(tk, windows) ==
    IF windows = <<>> THEN tk
    ELSE LET w == Head(windows)
             is == {i \in 1..Len(tk) : tk[i].name = w[1]}
         IN  TakeWindows(
                 IF is # {} THEN [tk EXCEPT ![Min(is)].bag = BagAdd(@, w)]
                 ELSE Append(tk, [name |-> w[1], bag |-> (w :> 1)]),
                 Tail(windows))

\* the windows of a chain: every slice of length d but the last
WindowsOf(chain, d) ==
    [i \in 1..(IF Len(chain) > d THEN Len(chain) - d ELSE 0) |->
        [k \in 1..d |-> chain[i + k - 1]]]

\* ------------------------------------------------------------------ inputs

RECURSIVE SeqsUpTo(_, _)
SeqsUpTo(S, n) ==
    IF n = 0 THEN {<<>>}
    ELSE LET shorter == SeqsUpTo(S, n - 1)
         IN  shorter \cup {Append(s, x) : s \in {t \in shorter : Len(t) = n - 1}, x \in S}

\* fit is called with the chains over two labels and two chains with more
TrainChains ==
    SeqsUpTo({"A", "B"}, 4) \cup {<<"A", "B", "C", "A">>, <<"A", "B", "D", "A">>}

\* the windows event_prob is asked about; X is a label no chain holds
QueryWindows ==
    SeqsUpTo({"A", "B"}, 2)
        \cup { <<"X">>, <<"X", "A">>, <<"A", "X">>, <<"A", "B", "C">>, <<"A", "B", "D">>,
               <<"A", "B", "X">>, <<"A", "A", "B">>, <<"B", "A", "B">>, <<"X", "A", "B">>,
               <<"A", "B", "C", "A">> }

\* the sequences chain_prob is asked about
QueryChains ==
    { <<>>, <<"A">>, <<"A", "B">>, <<"A", "B", "A">>, <<"A", "B", "C", "A">>,
      <<"A", "B", "A", "B", "A">>, <<"A", "B", "C", "A", "B", "D">> }

\* the chains trees are built from and fed directly
TreeChains ==
    { <<"A", "B">>, <<"A", "C">>, <<"B", "B">>, <<"A", "B", "C">> }

TreeWindows == { <<"A", "B">>, <<"A", "C">>, <<"B", "B">>, <<"B", "C">> }

\* ------------------------------------------------------------------ the model's calls

NoCall == [op |-> "none", arg |-> <<>>, res |-> <<>>, raised |-> ""]

\* the record of a call that returned v or raised what v stands for
Call(op, arg, v) ==
    [op |-> op, arg |-> arg, res |-> IF ExcOf(v) = "" THEN v ELSE <<>>, raised |-> ExcOf(v)]

Init ==
    /\ depth \in Depths
    /\ trees = <<>>
    /\ taken = <<>>
    /\ phase = <<>>
    /\ fits = 0
    /\ out = NoCall

\* model.fit(chain)
Fit(chain) ==
    /\ fits < MaxFits
    /\ trees' = FitTrees(trees, depth, chain)
    /\ taken' = IF depth = 0 THEN taken ELSE TakeWindows(taken, WindowsOf(chain, depth))
    /\ phase' = [i \in 1..Len(trees') |-> "fresh"]
    /\ fits' = fits + 1
    /\ out' = Call("fit", <<>>, IF FitRaises(depth, chain) THEN IndexError ELSE NoneVal)
    /\ UNCHANGED depth

\* model.get_event_prob(subchain)
EventProb(subchain) ==
    /\ out' = Call("event_prob", subchain, GetEventProb(trees, depth, subchain))
    /\ UNCHANGED <<depth, trees, taken, phase, fits>>

\* model.get_chain_prob(chain)
ChainProb(chain) ==
    /\ out' = [op |-> "chain_prob", arg |-> chain,
               res |-> GetChainProb(trees, depth, chain).value,
               raised |-> GetChainProb(trees, depth, chain).raised]
    /\ UNCHANGED <<depth, trees, taken, phase, fits>>

Next ==
    \/ \E chain \in TrainChains : Fit(chain)
    \/ \E subchain \in QueryWindows : EventProb(subchain)
    \/ \E chain \in QueryChains : ChainProb(chain)

Spec == Init /\ [][Next]_vars

\* ------------------------------------------------------------------ trees used directly

\* the chains fed to the trees so far: one per tree, one per add_subchain
RECURSIVE Fed(_)
Fed(ts) == IF ts = <<>> THEN 0 ELSE 1 + Head(ts).power + Fed(Tail(ts))

TreeInit ==
    /\ depth = 2
    /\ trees = <<>>
    /\ taken = <<>>
    /\ phase = <<>>
    /\ fits = 0
    /\ out = NoCall

\* model.trees.append(PST(init_chain))
NewTree(init_chain) ==
    /\ Fed(trees) < MaxChains
    /\ trees' = Append(trees, PSTInit(init_chain))
    /\ taken' = Append(taken, [name |-> init_chain[1], bag |-> (init_chain :> 1)])
    /\ phase' = Append(phase, "never")
    /\ out' = NoCall
    /\ UNCHANGED <<depth, fits>>

\* model.trees[t].add_subchain(subchain)
Absorb(t, subchain) ==
    /\ Fed(trees) < MaxChains
    /\ trees' = [trees EXCEPT ![t] = AddSubchain(@, subchain)]
    /\ taken' = [taken EXCEPT ![t].bag = BagAdd(@, subchain)]
    /\ phase' = [phase EXCEPT ![t] = IF @ = "never" THEN "never" ELSE "stale"]
    /\ out' = NoCall
    /\ UNCHANGED <<depth, fits>>

\* model.trees[t].evaluate_probability()
Evaluate(t) ==
    /\ trees' = [trees EXCEPT ![t] = EvaluateProbability(@)]
    /\ phase' = [phase EXCEPT ![t] = "fresh"]
    /\ out' = NoCall
    /\ UNCHANGED <<depth, taken, fits>>

\* model.get_event_prob(subchain) on the trees as they are
TreeEventProb(subchain) ==
    /\ out' = Call("event_prob", subchain, GetEventProb(trees, depth, subchain))
    /\ UNCHANGED <<depth, trees, taken, phase, fits>>

\* model.trees[a].get_distance(model.trees[b])
Distance(a, b) ==
    /\ out' = Call("distance", <<a, b>>, GetDistance(trees[a], trees[b]))
    /\ UNCHANGED <<depth, trees, taken, phase, fits>>

TreeNext ==
    \/ \E init_chain \in TreeChains : NewTree(init_chain)
    \/ \E t \in 1..Len(trees), subchain \in TreeChains : Absorb(t, subchain)
    \/ \E t \in 1..Len(trees) : Evaluate(t)
    \/ \E subchain \in TreeWindows : TreeEventProb(subchain)
    \/ \E a \in 1..Len(trees), b \in 1..Len(trees) : Distance(a, b)

TreeSpec == TreeInit /\ [][TreeNext]_vars

\* ------------------------------------------------------------------ reading a tree

\* the names on the way from the root's child down to node i
RECURSIVE PathOf(_, _)
PathOf(nodes, i) ==
    IF nodes[i].parent = 0 THEN <<>>
    ELSE Append(PathOf(nodes, nodes[i].parent), nodes[i].name)

\* the entry of node i in its parent's children
EdgeOf(nodes, i) ==
    nodes[nodes[i].parent].children[EntryOf(nodes, nodes[i].parent, i)]

\* the product of the 'p' on the edges from the root down to node i
RECURSIVE PathProduct(_, _)
PathProduct(nodes, i) ==
    IF nodes[i].parent = 0 THEN One
    ELSE RMul(PathProduct(nodes, nodes[i].parent), EdgeOf(nodes, i).p)

NodesAt(nodes, path) == {i \in 1..Len(nodes) : PathOf(nodes, i) = path}

RECURSIVE BagSum(_, _)
BagSum(bag, S) ==
    IF S = {} THEN 0
    ELSE LET w == CHOOSE v \in S : TRUE
         IN  bag[w] + BagSum(bag, S \ {w})

BagSize(bag) == BagSum(bag, DOMAIN bag)

IsPrefix(s, t) == Len(s) <= Len(t) /\ SubSeq(t, 1, Len(s)) = s

AllLabels == Labels \cup {"X"}

ScenarioBag == (<<"A", "B", "C">> :> 2) @@ (<<"A", "B", "D">> :> 1)

\* ------------------------------------------------------------------ claims

\* C1: after any fits, event_prob of a window w of length depth is 0 when
\* no tree is named w[0] or the walk along w[1:] leaves the tree, and else
\* the product of the edge probabilities on w's path, which is (windows
\* equal to w) / (windows starting with w[0]) and lies in (0, 1]; after the
\* windows ABC, ABD, ABC at depth 3 it is 2/3 for ABC, 1/3 for ABD, 0 for ABX.
EventProbIsWindowFrequency ==
    /\ (out.op = "event_prob" /\ Len(out.arg) = depth /\ depth >= 1) =>
          LET w == out.arg
              t == GetPSTByName(trees, w[1])
              hs == {i \in 1..Len(taken) : taken[i].name = w[1]}
              bag == taken[CHOOSE i \in hs : TRUE].bag
              at == NodesAt(trees[t].nodes, Tail(w))
          IN  /\ out.raised = ""
              /\ (t = 0) = (hs = {})
              /\ out.res = IF hs = {} \/ w \notin DOMAIN bag THEN Zero
                           ELSE Ratio(bag[w], BagSize(bag))
              /\ (out.res = Zero) = (t = 0 \/ at = {})
              /\ out.res # Zero =>
                    /\ 0 < out.res[1] /\ out.res[1] <= out.res[2]
                    /\ \A i \in at : out.res = PathProduct(trees[t].nodes, i)
    /\ (depth = 3 /\ \E i \in 1..Len(taken) : taken[i].name = "A" /\ taken[i].bag = ScenarioBag) =>
          /\ GetEventProb(trees, depth, <<"A", "B", "C">>) = <<2, 3>>
          /\ GetEventProb(trees, depth, <<"A", "B", "D">>) = <<1, 3>>
          /\ GetEventProb(trees, depth, <<"A", "B", "X">>) = Zero

EventProbScenarioAsked ==
    /\ depth = 3
    /\ \E i \in 1..Len(taken) : taken[i].name = "A" /\ taken[i].bag = ScenarioBag
    /\ out = [op |-> "event_prob", arg |-> <<"A", "B", "C">>, res |-> <<2, 3>>, raised |-> ""]

RECURSIVE SumP(_)
SumP(children) ==
    IF children = <<>> THEN Zero ELSE RAdd(Head(children).p, SumP(Tail(children)))

ChildCountsMatchHistory ==
    \A t \in 1..Len(trees) : \A n \in 1..Len(trees[t].nodes) : \A x \in AllLabels :
        LET nodes == trees[t].nodes
            ch == nodes[n].children
            ext == Append(PathOf(nodes, n), x)
            N == BagSum(taken[t].bag, {w \in DOMAIN taken[t].bag : IsPrefix(ext, Tail(w))})
            named == {k \in 1..Len(ch) : nodes[ch[k].node].name = x}
        IN  /\ Cardinality(named) = (IF N > 0 THEN 1 ELSE 0)
            /\ \A k \in named : ch[k].count = N

ExtensionAbsorbedTwice ==
    \E t \in 1..Len(trees) :
        /\ trees[t].power >= 2
        /\ \E n \in 2..Len(trees[t].nodes) :
              \E k \in 1..Len(trees[t].nodes[n].children) :
                  trees[t].nodes[n].children[k].count >= 2

\* C4: the list chain_prob returns is as long as the longer of the sequence
\* and depth (as long as the sequence whenever that has at least depth
\* elements), and its first depth entries are NaN; the call returns a list
\* in every model of depth >= 1, and at depth 0 raises IndexError on every
\* sequence but the empty one.
ChainProbLength ==
    out.op = "chain_prob" =>
        IF depth >= 1
        THEN /\ out.raised = ""
             /\ Len(out.res) = IF Len(out.arg) >= depth THEN Len(out.arg) ELSE depth
             /\ \A k \in 1..depth : out.res[k] = NaN
        ELSE /\ out.raised = IF out.arg = <<>> THEN "" ELSE "IndexError"
             /\ out.res = <<>>

ShortChainAsked ==
    /\ out.op = "chain_prob"
    /\ Len(out.arg) < depth
    /\ Len(out.res) = depth
    /\ trees # <<>>

\* C4 as stated: the list returned is as long as the sequence, whatever its
\* length, and what it holds of its first depth entries is NaN.
ChainProbLengthIsInputLength ==
    (out.op = "chain_prob" /\ out.raised = "") =>
        /\ Len(out.res) = Len(out.arg)
        /\ \A k \in 1..depth : k <= Len(out.res) => out.res[k] = NaN

\* C5: in the list chain_prob returns, the entry at index k (from 0) with
\* depth <= k < len(sequence) is event_prob of sequence[k-depth : k], the
\* window of length depth that ends at position k - 1.
ChainProbEntryIsPrecedingWindow ==
    (out.op = "chain_prob" /\ out.raised = "") =>
        \A j \in (depth + 1)..Len(out.arg) :
            out.res[j] = GetEventProb(trees, depth, SubSeq(out.arg, j - depth, j - 1))

EntryDiffersFromWindowEndingThere ==
    /\ out.op = "chain_prob"
    /\ out.raised = ""
    /\ \E j \in (depth + 1)..Len(out.arg) :
          /\ out.res[j] # Zero
          /\ GetEventProb(trees, depth, SubSeq(out.arg, j - depth + 1, j)) = Zero

\* C5 as stated: that entry is event_prob of the window of length depth
\* whose last element is sequence[k].
ChainProbEntryIsWindowEndingThere ==
    (out.op = "chain_prob" /\ out.raised = "") =>
        \A j \in (depth + 1)..Len(out.arg) :
            out.res[j] = GetEventProb(trees, depth, SubSeq(out.arg, j - depth + 1, j))

\* C6: a query routed to a tree that was never evaluated, or was fed a
\* chain since it was last evaluated, and a distance that involves such a
\* tree, end in the 'not evaluated' error.
UnevaluatedTreeIsRefused ==
    /\ (out.op = "event_prob" /\ Len(out.arg) = depth) =>
          LET t == GetPSTByName(trees, out.arg[1])
          IN  (t # 0 /\ phase[t] # "fresh") => out.raised = NotEvaluated
    /\ out.op = "distance" =>
          ((phase[out.arg[1]] # "fresh" \/ phase[out.arg[2]] # "fresh") => out.raised = NotEvaluated)

\* C7: event_prob of a window whose length is not depth returns None and
\* raises nothing, with or without a tree for the window's first element.
WrongLengthIsNone ==
    (out.op = "event_prob" /\ Len(out.arg) # depth) => (out.raised = "" /\ out.res = NoneVal)

WrongLengthAsked ==
    /\ out.op = "event_prob"
    /\ Len(out.arg) # depth
    /\ out.arg # <<>>
    /\ GetPSTByName(trees, out.arg[1]) # 0
    /\ out.res = NoneVal

\* every node of ts[a] below the root has a node of ts[b] at the same path
\* of names, reached by an edge of the same p
Embedded(ts, a, b) ==
    \A i \in 2..Len(ts[a].nodes) :
        \E j \in 2..Len(ts[b].nodes) :
            /\ PathOf(ts[b].nodes, j) = PathOf(ts[a].nodes, i)
            /\ EdgeOf(ts[b].nodes, j).p = EdgeOf(ts[a].nodes, i).p

\* C8: for two evaluated trees the distance is a number >= 0, and it is 0
\* only when every node of this tree below the root has a node of the same
\* name at the same place in the other, reached by an edge of the same
\* probability; a name missing there or a differing probability makes it
\* positive.
ZeroDistanceOnlyIfEmbedded ==
    (out.op = "distance" /\ phase[out.arg[1]] = "fresh" /\ phase[out.arg[2]] = "fresh") =>
        /\ out.raised = "" /\ IsNum(out.res) /\ out.res[1] >= 0
        /\ out.res = Zero => Embedded(trees, out.arg[1], out.arg[2])

ZeroDistanceBetweenTwoTrees ==
    /\ out.op = "distance"
    /\ out.arg[1] # out.arg[2]
    /\ phase[out.arg[1]] = "fresh" /\ phase[out.arg[2]] = "fresh"
    /\ Len(trees[out.arg[1]].nodes) >= 3
    /\ trees[out.arg[1]].nodes # trees[out.arg[2]].nodes
    /\ out.res = Zero

\* C8 as stated: the root too has a node of the same name on the other side.
ZeroDistanceOnlyIfEmbeddedWithRoot ==
    (out.op = "distance" /\ phase[out.arg[1]] = "fresh" /\ phase[out.arg[2]] = "fresh") =>
        (out.res = Zero =>
            /\ Embedded(trees, out.arg[1], out.arg[2])
            /\ trees[out.arg[1]].name = trees[out.arg[2]].name)

\* C9: the distance of an evaluated tree to itself is 0.
SelfDistanceIsZero ==
    (out.op = "distance" /\ out.arg[1] = out.arg[2] /\ phase[out.arg[1]] = "fresh") =>
        (out.raised = "" /\ out.res = Zero)

SelfDistanceOfBranchingTree ==
    /\ out.op = "distance"
    /\ out.arg[1] = out.arg[2]
    /\ phase[out.arg[1]] = "fresh"
    /\ trees[out.arg[1]].depth = 3
    /\ \E n \in 1..Len(trees[out.arg[1]].nodes) : Len(trees[out.arg[1]].nodes[n].children) >= 2
    /\ out.res = Zero

\* C10: in a model of depth >= 2, in every tree the counts of the root's
\* children sum to power + 1, the number of windows routed to the tree,
\* the counts of the children of any other node
\* with children sum to that node's count in its parent, and every leaf is
\* at level depth - 1.
CountsAreConserved ==
    depth >= 2 =>
        \A t \in 1..Len(trees) :
            LET nodes == trees[t].nodes
            IN  /\ SumCounts(nodes[1].children) = trees[t].power + 1
                /\ BagSize(taken[t].bag) = trees[t].power + 1
                /\ \A n \in 2..Len(nodes) :
                      /\ nodes[n].children # <<>> =>
                            SumCounts(nodes[n].children) = EdgeOf(nodes, n).count
                      /\ nodes[n].children = <<>> => nodes[n].level = depth - 1

DeepTreeAbsorbedTwice ==
    /\ depth = 3
    /\ \E t \in 1..Len(trees) :
          /\ trees[t].power >= 2
          /\ \E n \in 2..Len(trees[t].nodes) : Len(trees[t].nodes[n].children) >= 2

====
